---- MODULE Spec2Model ----
(***************************************************************************)
(* Model of the feed pipeline of eapteka_feed_handler:                     *)
(*   - XMLSaver (handler/feeds_save.py): concurrent download, validation   *)
(*     and saving of the feeds, and the part of main() that drives it;     *)
(*   - FeedReport / XMLHandler joins (handler/feeds_report.py,             *)
(*     handler/feeds_handler.py): occurrence index, inner and full outer   *)
(*     join;                                                               *)
(*   - get_offers_report: category aggregation and recursive rollup.       *)
(*   - the statistics of handler/calculation.py and the upsert of the      *)
(*     reports table (handler/constants.py).                               *)
(* The specifications share the variables: Spec and SpecGetFile (fetch     *)
(* pipeline), SpecJoin (joins), SpecReport and SpecAny (report over well   *)
(* formed and over arbitrary documents), SpecStats (statistics) and SpecDb *)
(* (reports table).  The variables a specification does not use keep       *)
(* their initial value.                                                    *)
(***************************************************************************)
EXTENDS Integers, Sequences, FiniteSets, TLC

VARIABLES
    \* ---- XMLSaver and main() ----
    feeds_list,        \* self.feeds_list: sequence of URLs
    max_workers,       \* self.max_workers
    max_load_attempt,  \* self.max_load_attempt
    folder,            \* the feeds folder on disk: file name -> file state
    main_pc,           \* position of main()
    total_files,       \* save_xml local
    saved_files,       \* save_xml local
    wpc,               \* per submitted future: position of its worker
    attempts,          \* per source: requests.get calls issued
    body,              \* per source: kind of response.content, once read
    result,            \* per future: "none", "True", "False", "raised"
    collected,         \* futures already yielded by as_completed
    reported,          \* the two numbers of the final bot_event
    filenames,         \* main(): get_filenames_list(FEEDS_FOLDER)
    script,            \* what the server does at the 1st, 2nd, ... request
    \* ---- joins ----
    docs,              \* parsed documents, in self.filenames order
    has_offers,        \* the first document has an <offers> container
    cached_offers,     \* FeedReport._cached_offers
    join_pc,           \* outcome of the last join_feeds call
    join_type,         \* argument of the last join_feeds call
    join_files,        \* the join folder: file name -> saved offers
    \* ---- report ----
    categories,        \* <category> elements of the document, in order
    offers_in,         \* <offer> elements of the document, in order
    report_pc,         \* outcome of get_offers_report
    category_data,     \* category_data after the rollup
    all_categories,    \* all_categories: category id -> parent id
    report_result,     \* get_offers_report: the rows of result
    stat_calls,        \* price lists the statistics functions were given
    \* ---- statistics ----
    price_list,        \* the price list of one category
    summary,           \* the statistics of a report row built from it
    \* ---- reports table ----
    reports_table,     \* rows of reports_offers_<shop>
    upserted           \* rows given to INSERT_REPORT so far, in order

fetch_vars == <<feeds_list, max_workers, max_load_attempt, folder, main_pc,
                total_files, saved_files, wpc, attempts, body, result,
                collected, reported, filenames>>
join_vars == <<docs, has_offers, cached_offers, join_pc, join_type,
               join_files>>
report_vars == <<categories, offers_in, report_pc, category_data,
                 all_categories, report_result, stat_calls>>
stats_vars == <<price_list, summary>>
db_vars == <<reports_table, upserted>>
vars == <<fetch_vars, join_vars, report_vars, stats_vars, db_vars, script>>

\* ---------------------------------------------------------------------
\* Bounds
\* ---------------------------------------------------------------------
MaxFeeds == 2
MaxWorkers == 2
MaxDocs == 2
MaxOffers == 3
MaxId == 2
MaxCat == 3
MaxDirect == 1
MaxPriceValue == 4
MaxPrices == 5
MaxUpserts == 3
MaxScript == 4
MaxCeiling == 4

\* ---------------------------------------------------------------------
\* Program constants
\* ---------------------------------------------------------------------
\* @retry_on_network_error(max_attempts=3, ...)
RETRY_MAX_ATTEMPTS == 3
\* ATTEMPTION_LOAD_FEED
ATTEMPTION_LOAD_FEED == 3

\* A URL is the sequence of its '/'-separated parts.
Urls == { <<"h1", "feed1.xml">>, <<"h2", "feed1.xml">>, <<"h1", "feed2.xml">> }

\* feed.split('/')[-1]
get_filename(feed) == feed[Len(feed)]

FileNames == { get_filename(u) : u \in Urls }

SeqsUpTo(S, n) == UNION { [1..k -> S] : k \in 0..n }

\* The sequences of at most n distinct elements of S.
DistinctSeqsUpTo(S, n) ==
    { q \in SeqsUpTo(S, n) : \A a, b \in DOMAIN q : q[a] = q[b] => a = b }

\* The place of a URL in the configured tuple of feeds.
feed_place(u) ==
    CASE u = <<"h1", "feed1.xml">> -> 1
      [] u = <<"h2", "feed1.xml">> -> 2
      [] OTHER -> 3

\* The feed lists given to XMLSaver: at most MaxFeeds of the URLs, in the
\* order of the configured tuple (the URLs differ in nothing but their
\* parts, so another order is this one with the names exchanged).
FeedLists ==
    { q \in DistinctSeqsUpTo(Urls, MaxFeeds) :
         \A a, b \in DOMAIN q : a < b => feed_place(q[a]) < feed_place(q[b]) }

Sources == 1..Len(feeds_list)

file_name(i) == get_filename(feeds_list[i])

\* ---------------------------------------------------------------------
\* Values the other specifications' variables keep under this one
\* ---------------------------------------------------------------------
\* self._cached_offers is None; a cached tuple is held as <<tuple>>.
NoCache == <<>>

JoinIdle ==
    /\ docs = <<>>
    /\ has_offers = TRUE
    /\ cached_offers = NoCache
    /\ join_pc = "idle"
    /\ join_type = "none"
    /\ join_files = [f \in {} |-> <<>>]

ReportIdle ==
    /\ categories = <<>>
    /\ offers_in = <<>>
    /\ report_pc = "idle"
    /\ category_data = <<>>
    /\ all_categories = <<>>
    /\ report_result = <<>>
    /\ stat_calls = {}

StatsIdle ==
    /\ price_list = <<>>
    /\ summary = <<>>

DbIdle ==
    /\ reports_table = {}
    /\ upserted = <<>>

\* No request is scripted: every requests.get may do anything.
ServerIdle == script = <<>>

FetchIdle ==
    /\ feeds_list = <<>>
    /\ max_workers = 1
    /\ max_load_attempt = ATTEMPTION_LOAD_FEED
    /\ folder = [n \in FileNames |-> "absent"]
    /\ main_pc = "idle"
    /\ total_files = 0
    /\ saved_files = 0
    /\ wpc = <<>>
    /\ attempts = <<>>
    /\ body = <<>>
    /\ result = <<>>
    /\ collected = {}
    /\ reported = <<>>
    /\ filenames = {}

\* ---------------------------------------------------------------------
\* XMLSaver
\* ---------------------------------------------------------------------
\* What one requests.get call can do: answer 200, answer another status,
\* or raise a network exception.
Outcomes == {"ok", "http", "net"}

\* Kinds of response.content.
BodyKinds == {"valid", "blank", "undecodable", "illformed", "badenc"}

\* The retry decorator, after failed attempt number n: call again or let
\* the exception out.
retry_on_network_error(n) ==
    IF n < RETRY_MAX_ATTEMPTS THEN "retry" ELSE "raise"

\* _validate_xml: the exception it ends with, or "ok".
validate_xml(b) ==
    CASE b = "blank" -> "EmptyXMLError"
      [] b \in {"undecodable", "illformed"} -> "InvalidXMLError"
      [] b = "badenc" -> "LookupError"
      [] OTHER -> "ok"

\* Mutant of process_single_feed_except: only validation errors are
\* turned into False, a RequestException is re-raised.
process_single_feed_except_reraise(exc) ==
    IF exc \in {"EmptyXMLError", "InvalidXMLError"}
    THEN "False"
    ELSE "raised"

\* The except clauses of _process_single_feed: what the future ends with.
process_single_feed_except(exc) ==
    IF exc \in {"RequestException", "EmptyXMLError", "InvalidXMLError"}
    THEN "False"
    ELSE "raised"

\* The futures submitted to the pool (future_to_feed).
Futures == DOMAIN wpc

\* Attempts of source i that failed (non-200 status or network exception).
fails(i) == IF body[i] = "none" THEN attempts[i] ELSE attempts[i] - 1

FutureDone(i) == wpc[i] \in {"done", "cancelled"}

Running ==
    Cardinality({ j \in Futures : wpc[j] \notin {"pending", "done", "cancelled"} })

\* A worker thread of the pool takes the oldest queued task when one of
\* the max_workers threads is free.
CanStart(i) ==
    /\ wpc[i] = "pending"
    /\ Running < max_workers
    /\ \A j \in Futures : j < i => wpc[j] # "pending"

Finish(i, r) ==
    /\ wpc' = [wpc EXCEPT ![i] = "done"]
    /\ result' = [result EXCEPT ![i] = r]

\* Mutant of Construct: the list is stored without being looked at.
Construct_unchecked ==
    /\ main_pc = "init"
    /\ main_pc' = "constructed"
    /\ UNCHANGED <<feeds_list, max_workers, max_load_attempt, folder,
                   total_files, saved_files, wpc, attempts, body,
                   result, collected, reported, filenames>>
    /\ UNCHANGED <<join_vars, report_vars, stats_vars, db_vars, script>>

\* XMLSaver.__init__
Construct ==
    /\ main_pc = "init"
    /\ main_pc' = IF feeds_list = <<>> THEN "EmptyFeedsListError"
                  ELSE "constructed"
    /\ UNCHANGED <<feeds_list, max_workers, max_load_attempt, folder,
                   total_files, saved_files, wpc, attempts, body,
                   result, collected, reported, filenames>>
    /\ UNCHANGED <<join_vars, report_vars, stats_vars, db_vars, script>>

\* save_xml up to the end of the dict comprehension: every source is
\* submitted to the pool.
SaveXmlBegin ==
    /\ main_pc = "constructed"
    /\ total_files' = Len(feeds_list)
    /\ saved_files' = 0
    /\ wpc' = [i \in Sources |-> "pending"]
    /\ attempts' = [i \in Sources |-> 0]
    /\ body' = [i \in Sources |-> "none"]
    /\ result' = [i \in Sources |-> "none"]
    /\ collected' = {}
    /\ main_pc' = "as_completed"
    /\ UNCHANGED <<feeds_list, max_workers, max_load_attempt, folder,
                   reported, filenames>>
    /\ UNCHANGED <<join_vars, report_vars, stats_vars, db_vars, script>>

\* _make_dir raises DirectoryCreationError.
MakeDirFails ==
    /\ main_pc = "constructed"
    /\ main_pc' = "DirectoryCreationError"
    /\ UNCHANGED <<feeds_list, max_workers, max_load_attempt, folder,
                   total_files, saved_files, wpc, attempts, body,
                   result, collected, reported, filenames>>
    /\ UNCHANGED <<join_vars, report_vars, stats_vars, db_vars, script>>

WorkerStart(i) ==
    /\ main_pc = "as_completed"
    /\ CanStart(i)
    /\ wpc' = [wpc EXCEPT ![i] = "get_file"]
    /\ UNCHANGED <<feeds_list, max_workers, max_load_attempt, folder, main_pc,
                   total_files, saved_files, attempts, body, result,
                   collected, reported, filenames>>
    /\ UNCHANGED <<join_vars, report_vars, stats_vars, db_vars, script>>

\* What the server does at the request after n requests: what the script
\* says, anything when there is none.
served(n) == IF script = <<>> THEN Outcomes ELSE {script[n + 1]}

\* Mutant of GetFile: the response is returned whatever its status.
GetFile_anystatus(i) ==
    /\ wpc[i] = "get_file"
    /\ attempts' = [attempts EXCEPT ![i] = @ + 1]
    /\ \E o \in served(attempts[i]) :
         IF o \in {"ok", "http"}
         THEN /\ body' = [body EXCEPT ![i] = "unread"]
              /\ wpc' = [wpc EXCEPT ![i] = "validate"]
              /\ result' = result
         ELSE /\ body' = body
              /\ IF retry_on_network_error(attempts[i] + 1) = "retry"
                 THEN UNCHANGED <<wpc, result>>
                 ELSE Finish(i, process_single_feed_except("RequestException"))
    /\ UNCHANGED <<feeds_list, max_workers, max_load_attempt, folder, main_pc,
                   total_files, saved_files, collected, reported, filenames>>
    /\ UNCHANGED <<join_vars, report_vars, stats_vars, db_vars, script>>

\* One attempt of _get_file under the retry decorator.
GetFile(i) ==
    /\ wpc[i] = "get_file"
    /\ attempts' = [attempts EXCEPT ![i] = @ + 1]
    /\ \E o \in served(attempts[i]) :
         IF o = "ok"
         THEN /\ body' = [body EXCEPT ![i] = "unread"]
              /\ wpc' = [wpc EXCEPT ![i] = "validate"]
              /\ result' = result
         ELSE /\ body' = body
              /\ IF retry_on_network_error(attempts[i] + 1) = "retry"
                 THEN UNCHANGED <<wpc, result>>
                 ELSE Finish(i, process_single_feed_except("RequestException"))
    /\ UNCHANGED <<feeds_list, max_workers, max_load_attempt, folder, main_pc,
                   total_files, saved_files, collected, reported, filenames>>
    /\ UNCHANGED <<join_vars, report_vars, stats_vars, db_vars, script>>

\* Mutant of ValidateXml: a body that fails validation is requested
\* again while attempts are left.
ValidateXml_retry(i) ==
    /\ wpc[i] = "validate"
    /\ \E b \in BodyKinds :
          /\ body' = [body EXCEPT ![i] = b]
          /\ IF validate_xml(b) = "ok"
             THEN /\ wpc' = [wpc EXCEPT ![i] = "open"]
                  /\ result' = result
             ELSE IF attempts[i] < RETRY_MAX_ATTEMPTS
                  THEN /\ wpc' = [wpc EXCEPT ![i] = "get_file"]
                       /\ result' = result
                  ELSE Finish(i, process_single_feed_except(validate_xml(b)))
    /\ UNCHANGED <<feeds_list, max_workers, max_load_attempt, folder, main_pc,
                   total_files, saved_files, attempts,
                   collected, reported, filenames>>
    /\ UNCHANGED <<join_vars, report_vars, stats_vars, db_vars, script>>

\* xml_content = response.content and _validate_xml(xml_content); the
\* kind of the content shows here.
ValidateXml(i) ==
    /\ wpc[i] = "validate"
    /\ \E b \in BodyKinds :
          /\ body' = [body EXCEPT ![i] = b]
          /\ IF validate_xml(b) = "ok"
             THEN /\ wpc' = [wpc EXCEPT ![i] = "open"]
                  /\ result' = result
             ELSE Finish(i, process_single_feed_except(validate_xml(b)))
    /\ UNCHANGED <<feeds_list, max_workers, max_load_attempt, folder, main_pc,
                   total_files, saved_files, attempts,
                   collected, reported, filenames>>
    /\ UNCHANGED <<join_vars, report_vars, stats_vars, db_vars, script>>

\* open(file_path, 'wb'): the file is created or truncated.
OpenFile(i) ==
    /\ wpc[i] = "open"
    /\ folder' = [folder EXCEPT ![file_name(i)] = "partial"]
    /\ wpc' = [wpc EXCEPT ![i] = "write"]
    /\ UNCHANGED <<feeds_list, max_workers, max_load_attempt, main_pc,
                   total_files, saved_files, attempts, body, result,
                   collected, reported, filenames>>
    /\ UNCHANGED <<join_vars, report_vars, stats_vars, db_vars, script>>

\* tree.write(...) and return True
WriteFile(i) ==
    /\ wpc[i] = "write"
    /\ folder' = [folder EXCEPT ![file_name(i)] = "complete"]
    /\ Finish(i, "True")
    /\ UNCHANGED <<feeds_list, max_workers, max_load_attempt, main_pc,
                   total_files, saved_files, attempts, body,
                   collected, reported, filenames>>
    /\ UNCHANGED <<join_vars, report_vars, stats_vars, db_vars, script>>

\* Mutant of Collect: the first source that did not succeed makes the
\* loop cancel the futures that are still queued.
Collect_failfast(i) ==
    /\ main_pc = "as_completed"
    /\ i \notin collected
    /\ FutureDone(i)
    /\ saved_files' = IF result[i] = "True" THEN saved_files + 1
                      ELSE saved_files
    /\ collected' = collected \cup {i}
    /\ wpc' = IF result[i] = "True" THEN wpc
              ELSE [j \in Futures |->
                      IF wpc[j] = "pending" THEN "cancelled" ELSE wpc[j]]
    /\ UNCHANGED <<feeds_list, max_workers, max_load_attempt, folder, main_pc,
                   total_files, attempts, body, result,
                   reported, filenames>>
    /\ UNCHANGED <<join_vars, report_vars, stats_vars, db_vars, script>>

\* Mutant of Collect: every completed future is counted as saved.
Collect_countall(i) ==
    /\ main_pc = "as_completed"
    /\ i \notin collected
    /\ FutureDone(i)
    /\ saved_files' = saved_files + 1
    /\ collected' = collected \cup {i}
    /\ UNCHANGED <<feeds_list, max_workers, max_load_attempt, folder, main_pc,
                   total_files, wpc, attempts, body, result,
                   reported, filenames>>
    /\ UNCHANGED <<join_vars, report_vars, stats_vars, db_vars, script>>

\* Mutant of Collect: an exception of the future is not caught, it leaves
\* save_xml.
Collect_reraise(i) ==
    /\ main_pc = "as_completed"
    /\ i \notin collected
    /\ FutureDone(i)
    /\ saved_files' = IF result[i] = "True" THEN saved_files + 1
                      ELSE saved_files
    /\ collected' = collected \cup {i}
    /\ main_pc' = IF result[i] = "raised" THEN "Exception" ELSE main_pc
    /\ UNCHANGED <<feeds_list, max_workers, max_load_attempt, folder,
                   total_files, wpc, attempts, body, result,
                   reported, filenames>>
    /\ UNCHANGED <<join_vars, report_vars, stats_vars, db_vars, script>>

\* One iteration of the as_completed loop.
Collect(i) ==
    /\ main_pc = "as_completed"
    /\ i \notin collected
    /\ FutureDone(i)
    /\ saved_files' = IF result[i] = "True" THEN saved_files + 1
                      ELSE saved_files
    /\ collected' = collected \cup {i}
    /\ UNCHANGED <<feeds_list, max_workers, max_load_attempt, folder, main_pc,
                   total_files, wpc, attempts, body, result,
                   reported, filenames>>
    /\ UNCHANGED <<join_vars, report_vars, stats_vars, db_vars, script>>

\* Mutant of LoopExhausted: save_xml leaves the loop at the first
\* completed future without joining the pool.
LoopExhausted_first == collected # {}

\* as_completed is exhausted and the with block has joined the pool.
LoopExhausted == collected = Futures /\ \A i \in Futures : FutureDone(i)

SaveXmlReturn ==
    /\ main_pc = "as_completed"
    /\ LoopExhausted
    /\ reported' = <<saved_files, total_files>>
    /\ main_pc' = "get_filenames_list"
    /\ UNCHANGED <<feeds_list, max_workers, max_load_attempt, folder,
                   total_files, saved_files, wpc, attempts, body,
                   result, collected, filenames>>
    /\ UNCHANGED <<join_vars, report_vars, stats_vars, db_vars, script>>

\* get_filenames_list(FEEDS_FOLDER)
get_filenames_list == { n \in FileNames : folder[n] # "absent" }

GetFilenamesList ==
    /\ main_pc = "get_filenames_list"
    /\ filenames' = get_filenames_list
    /\ main_pc' = IF get_filenames_list = {} THEN "NoFilesError"
                  ELSE "downstream"
    /\ UNCHANGED <<feeds_list, max_workers, max_load_attempt, folder,
                   total_files, saved_files, wpc, attempts, body,
                   result, collected, reported>>
    /\ UNCHANGED <<join_vars, report_vars, stats_vars, db_vars, script>>

\* The image, report and join stages of main().
Downstream ==
    /\ main_pc = "downstream"
    /\ main_pc' = "done"
    /\ UNCHANGED <<feeds_list, max_workers, max_load_attempt, folder,
                   total_files, saved_files, wpc, attempts, body,
                   result, collected, reported, filenames>>
    /\ UNCHANGED <<join_vars, report_vars, stats_vars, db_vars, script>>

Init ==
    /\ feeds_list \in FeedLists
    /\ max_workers \in 1..MaxWorkers
    /\ max_load_attempt = ATTEMPTION_LOAD_FEED
    /\ folder \in [FileNames -> {"absent", "stale"}]
    /\ main_pc = "init"
    /\ total_files = 0
    /\ saved_files = 0
    /\ wpc = <<>>
    /\ attempts = <<>>
    /\ body = <<>>
    /\ result = <<>>
    /\ collected = {}
    /\ reported = <<>>
    /\ filenames = {}
    /\ JoinIdle
    /\ ReportIdle
    /\ StatsIdle
    /\ DbIdle
    /\ ServerIdle

Next ==
    \/ Construct
    \/ SaveXmlBegin
    \/ MakeDirFails
    \/ \E i \in Futures : WorkerStart(i)
    \/ \E i \in Futures : GetFile(i)
    \/ \E i \in Futures : ValidateXml(i)
    \/ \E i \in Futures : OpenFile(i)
    \/ \E i \in Futures : WriteFile(i)
    \/ \E i \in Futures : Collect(i)
    \/ SaveXmlReturn
    \/ GetFilenamesList
    \/ Downstream

Spec == Init /\ [][Next]_vars

\* One source fetched by an XMLSaver built with some max_load_attempt,
\* from a server whose answers to the successive requests are fixed.
Scripts == [1..MaxScript -> Outcomes]

InitGetFile ==
    /\ feeds_list = << <<"h1", "feed1.xml">> >>
    /\ max_workers = 1
    /\ max_load_attempt \in 1..MaxCeiling
    /\ script \in Scripts
    /\ folder = [n \in FileNames |-> "absent"]
    /\ main_pc = "init"
    /\ total_files = 0
    /\ saved_files = 0
    /\ wpc = <<>>
    /\ attempts = <<>>
    /\ body = <<>>
    /\ result = <<>>
    /\ collected = {}
    /\ reported = <<>>
    /\ filenames = {}
    /\ JoinIdle
    /\ ReportIdle
    /\ StatsIdle
    /\ DbIdle

SpecGetFile == InitGetFile /\ [][Next]_vars

\* ---------------------------------------------------------------------
\* Properties of the fetch pipeline
\* ---------------------------------------------------------------------
\* main() is past saver.save_xml()
AfterSaveXml ==
    main_pc \in {"get_filenames_list", "downstream", "done", "NoFilesError"}

Succeeded == { i \in Futures : result[i] = "True" }

Failed == { i \in Futures : result[i] \in {"False", "raised"} }

\* C1: the failure of one source never cancels another one.  No future
\* is ever cancelled, and once save_xml has returned every source has been
\* requested at least once, has been validated if a response came, and
\* has been saved if its body was valid, whatever happened to the others.
C1_FailureIsolated ==
    /\ \A i \in Futures : wpc[i] # "cancelled"
    /\ AfterSaveXml =>
         \A i \in Futures :
            /\ wpc[i] = "done"
            /\ attempts[i] >= 1
            /\ body[i] = "none" => result[i] = "False"
            /\ body[i] \notin {"none", "valid"} => i \in Failed
            /\ body[i] = "valid" =>
                  /\ result[i] = "True"
                  /\ folder[file_name(i)] = "complete"

\* With one worker thread the first source has failed before the second
\* one is started; the second one is saved all the same.
C1_Witness ==
    /\ AfterSaveXml
    /\ max_workers = 1
    /\ Len(feeds_list) = 2
    /\ result[1] \in {"False", "raised"}
    /\ result[2] = "True"

C2_State ==
    /\ saved_files >= 0
    /\ saved_files <= total_files
    /\ main_pc = "as_completed" =>
          /\ total_files = Len(feeds_list)
          /\ saved_files = Cardinality(collected \cap Succeeded)
    /\ AfterSaveXml =>
          reported = <<Cardinality(Succeeded), Len(feeds_list)>>

C2_Step ==
    saved_files' # saved_files =>
       /\ main_pc = "as_completed"
       /\ saved_files' = saved_files + 1
       /\ wpc' = wpc
       /\ result' = result
       /\ \E i \in Futures \ collected :
             /\ FutureDone(i)
             /\ result[i] = "True"
             /\ collected' = collected \cup {i}

\* C2: the reported pair is (number of sources whose worker returned
\* True, number of sources supplied); 0 <= saved_files <= total_files at
\* every moment; saved_files changes only in a step of the collecting loop
\* that takes a completed future, by one, and no worker changes it.
C2_Counts == []C2_State /\ [][C2_Step]_vars

C2_Witness ==
    /\ AfterSaveXml
    /\ reported = <<1, 2>>
    /\ Cardinality(Failed) = 1

C4_FolderHoldsOnlySucceeded ==
    AfterSaveXml =>
       \A i \in Futures :
          /\ result[i] = "True" => folder[file_name(i)] # "absent"
          /\ result[i] = "False" => folder[file_name(i)] = "absent"

\* C5: main() lists the feeds folder, and runs the later stages, only
\* when every source has settled, every future has been collected and no
\* file of the folder is half written.
C5_DownstreamAfterFetch ==
    /\ AfterSaveXml =>
          /\ \A i \in Futures : wpc[i] = "done" /\ result[i] # "none"
          /\ collected = Futures
          /\ \A n \in FileNames : folder[n] # "partial"
          /\ \A i \in Succeeded : folder[file_name(i)] = "complete"
    /\ filenames # {} => main_pc \in {"downstream", "done"}

C5_Witness ==
    /\ main_pc = "downstream"
    /\ Succeeded # {}
    /\ Failed # {}
    /\ filenames # {}

\* ---------------------------------------------------------------------
\* Joins (FeedReport.join_feeds, XMLHandler.inner_join_feeds and
\* full_outer_join_feeds)
\* ---------------------------------------------------------------------
\* offer.get('id') of an offer without id attribute, or with an empty one.
NoId == 0

OfferIds == 0..MaxId

\* Where n documents divide a run of len offers: the number of offers
\* before the end of each document but the last.
Cuts(len, n) ==
    { c \in [1..(n - 1) -> 0..len] :
         \A a, b \in DOMAIN c : a < b => c[a] <= c[b] }

split(flat, c) ==
    [d \in 1..(Len(c) + 1) |->
        SubSeq(flat,
               (IF d = 1 THEN 0 ELSE c[d - 1]) + 1,
               IF d = Len(c) + 1 THEN Len(flat) ELSE c[d])]

\* The documents on disk, in self.filenames order: each is the sequence
\* of the id attributes of its <offer> elements, in document order; at
\* most MaxDocs documents holding at most MaxOffers offers together.
DocumentLists ==
    {<<>>} \cup
    UNION { UNION { { split(flat, c) : c \in Cuts(Len(flat), n) } :
                       n \in 1..MaxDocs } :
               flat \in SeqsUpTo(OfferIds, MaxOffers) }

\* self._get_root(filename, folder).findall('.//offer') for the d-th file
\* name: a fresh tree, one element per offer.
get_root_offers(ds, d) ==
    [k \in 1..Len(ds[d]) |-> [id |-> ds[d][k], doc |-> d, pos |-> k]]

\* A dict: its keys in insertion order and its values.
EmptyDict == [keys |-> <<>>, val |-> [k \in {} |-> 0]]

DictHas(dct, k) == k \in DOMAIN dct.val

DictSet(dct, k, v) ==
    IF DictHas(dct, k)
    THEN [keys |-> dct.keys, val |-> [dct.val EXCEPT ![k] = v]]
    ELSE [keys |-> Append(dct.keys, k), val |-> (dct.val @@ (k :> v))]

\* defaultdict(int)[k]
DictGetInt(dct, k) == IF DictHas(dct, k) THEN dct.val[k] ELSE 0

\* Mutant of index_offer: the first offer seen stays the representative.
index_offer_keepfirst(idx, offer) ==
    IF offer.id # NoId
    THEN [offer_counts |->
             DictSet(idx.offer_counts, offer.id,
                     DictGetInt(idx.offer_counts, offer.id) + 1),
          all_offers |->
             IF DictHas(idx.all_offers, offer.id) THEN idx.all_offers
             ELSE DictSet(idx.all_offers, offer.id, offer)]
    ELSE idx

\* The body of the inner loop of _collect_all_offers.
index_offer(idx, offer) ==
    IF offer.id # NoId
    THEN [offer_counts |->
             DictSet(idx.offer_counts, offer.id,
                     DictGetInt(idx.offer_counts, offer.id) + 1),
          all_offers |-> DictSet(idx.all_offers, offer.id, offer)]
    ELSE idx

RECURSIVE scan_offers(_, _, _)
scan_offers(idx, elems, k) ==
    IF k > Len(elems) THEN idx
    ELSE scan_offers(index_offer(idx, elems[k]), elems, k + 1)

RECURSIVE scan_documents(_, _, _)
scan_documents(idx, ds, d) ==
    IF d > Len(ds) THEN idx
    ELSE scan_documents(scan_offers(idx, get_root_offers(ds, d), 1), ds, d + 1)

\* _collect_all_offers over the documents ds
collect_all_offers(ds) ==
    scan_documents([offer_counts |-> EmptyDict, all_offers |-> EmptyDict],
                   ds, 1)

RECURSIVE select_counted(_, _, _)
select_counted(idx, n, k) ==
    IF k > Len(idx.offer_counts.keys) THEN <<>>
    ELSE LET offer_id == idx.offer_counts.keys[k]
         IN  (IF idx.offer_counts.val[offer_id] = n
              THEN <<idx.all_offers.val[offer_id]>>
              ELSE <<>>) \o select_counted(idx, n, k + 1)

\* The offers appended for join_type == 'inner', n being
\* len(self.filenames).
inner_join(idx, n) == select_counted(idx, n, 1)

\* Mutant of full_outer_join: the filter of the inner join is applied.
full_outer_join_filtered(idx, n) == select_counted(idx, n, 1)

\* The offers appended for join_type == 'full_outer'.
full_outer_join(idx, n) ==
    [k \in 1..Len(idx.all_offers.keys) |->
        idx.all_offers.val[idx.all_offers.keys[k]]]

JoinTypes == {"inner", "full_outer", "other"}

join_filename(t) ==
    IF t = "inner" THEN "inner_join_feed.xml" ELSE "full_outer_join_feed.xml"

\* The try_except decorator around join_feeds: an exception of the
\* operation reaches the caller.
try_except(outcome) == outcome

\* Mutant of join_outcome: a first document without <offers> is not
\* noticed.
join_outcome_unchecked(t) ==
    CASE Len(docs) = 0 -> "IndexError"
      [] t \notin {"inner", "full_outer"} -> "ValueError"
      [] OTHER -> "ok"

\* What join_feeds ends with: "ok" or the exception raised.
join_outcome(t) ==
    CASE Len(docs) = 0 -> "IndexError"
      [] ~has_offers -> "StructureXMLError"
      [] t \notin {"inner", "full_outer"} -> "ValueError"
      [] OTHER -> "ok"

\* Mutant of join_feeds: the template is the first input document itself,
\* emptied in place.
join_feeds_inplace(t) ==
    /\ join_type' = t
    /\ cached_offers' = IF cached_offers = NoCache
                        THEN <<collect_all_offers(docs)>>
                        ELSE cached_offers
    /\ join_pc' = try_except(join_outcome(t))
    /\ join_files' =
         IF join_outcome(t) = "ok"
         THEN (join_filename(t) :>
                  (IF t = "inner"
                   THEN inner_join(cached_offers'[1], Len(docs))
                   ELSE full_outer_join(cached_offers'[1], Len(docs))))
              @@ join_files
         ELSE join_files
    /\ docs' = IF Len(docs) > 0 /\ has_offers
               THEN [docs EXCEPT ![1] = <<>>]
               ELSE docs
    /\ UNCHANGED has_offers
    /\ UNCHANGED <<fetch_vars, report_vars, stats_vars, db_vars, script>>

\* join_feeds; the template root is a tree parsed anew from the first
\* file, so clearing its <offers> leaves the files as they are.
join_feeds(t) ==
    /\ join_type' = t
    /\ cached_offers' = IF cached_offers = NoCache
                        THEN <<collect_all_offers(docs)>>
                        ELSE cached_offers
    /\ join_pc' = try_except(join_outcome(t))
    /\ join_files' =
         IF join_outcome(t) = "ok"
         THEN (join_filename(t) :>
                  (IF t = "inner"
                   THEN inner_join(cached_offers'[1], Len(docs))
                   ELSE full_outer_join(cached_offers'[1], Len(docs))))
              @@ join_files
         ELSE join_files
    /\ UNCHANGED <<docs, has_offers>>
    /\ UNCHANGED <<fetch_vars, report_vars, stats_vars, db_vars, script>>

InitJoin ==
    /\ docs \in DocumentLists
    /\ has_offers \in BOOLEAN
    /\ cached_offers = NoCache
    /\ join_pc = "idle"
    /\ join_type = "none"
    /\ join_files = [f \in {} |-> <<>>]
    /\ FetchIdle
    /\ ReportIdle
    /\ StatsIdle
    /\ DbIdle
    /\ ServerIdle

NextJoin == \E t \in JoinTypes : join_feeds(t)

SpecJoin == InitJoin /\ [][NextJoin]_vars

\* ---------------------------------------------------------------------
\* Properties of the joins
\* ---------------------------------------------------------------------
\* The non-empty offer ids of document number d.
ids_of_document(ds, d) == { ds[d][k] : k \in 1..Len(ds[d]) } \ {NoId}

ids_of(elems) == { elems[k].id : k \in 1..Len(elems) }

\* The places (document, position) where an offer carries the id.
places(ds, id) ==
    { p \in (1..Len(ds)) \X (1..MaxOffers + 1) :
         p[2] <= Len(ds[p[1]]) /\ ds[p[1]][p[2]] = id }

later(p, q) == p[1] > q[1] \/ (p[1] = q[1] /\ p[2] >= q[2])

\* The two dicts held in self._cached_offers.
index == cached_offers[1]

InnerSaved ==
    /\ join_pc = "ok"
    /\ join_type = "inner"

inner_output == join_files["inner_join_feed.xml"]

FullOuterSaved ==
    /\ join_pc = "ok"
    /\ join_type = "full_outer"

full_outer_output == join_files["full_outer_join_feed.xml"]

\* C6 as claimed: the inner join of N documents holds one offer for each
\* id whose count in the index is N and nothing else, and it is empty
\* when one of the N >= 2 documents shares no offer id with the others.
C6_InnerJoinByCount ==
    InnerSaved =>
       /\ ids_of(inner_output) =
             { id \in DOMAIN index.offer_counts.val :
                  index.offer_counts.val[id] = Len(docs) }
       /\ \A a, b \in DOMAIN inner_output :
             inner_output[a].id = inner_output[b].id => a = b
       /\ (/\ Len(docs) >= 2
           /\ \E d \in DOMAIN docs :
                 \A e \in DOMAIN docs \ {d} :
                    ids_of_document(docs, d) \cap ids_of_document(docs, e) = {})
          => inner_output = <<>>

\* C7 as claimed: an id is in the inner join if and only if every
\* document holds an offer with that id.
C7_InnerJoinIffInEvery ==
    InnerSaved =>
       \A id \in OfferIds \ {NoId} :
          id \in ids_of(inner_output)
             <=> \A d \in DOMAIN docs : id \in ids_of_document(docs, d)

Permutation(n) ==
    { p \in [1..n -> 1..n] : \A a, b \in 1..n : p[a] = p[b] => a = b }

\* C8: the full outer join holds exactly one offer per distinct id, its
\* ids are the union of the (non-empty) offer ids of all documents, and
\* the join of every permutation of the documents has the same ids.
C8_FullOuterIsUnion ==
    FullOuterSaved =>
       /\ \A a, b \in DOMAIN full_outer_output :
             full_outer_output[a].id = full_outer_output[b].id => a = b
       /\ ids_of(full_outer_output) =
             UNION { ids_of_document(docs, d) : d \in DOMAIN docs }
       /\ \A p \in Permutation(Len(docs)) :
             ids_of(full_outer_join(
                       collect_all_offers([d \in DOMAIN docs |-> docs[p[d]]]),
                       Len(docs)))
                = ids_of(full_outer_output)

\* Two documents that share one id and each have one of their own.
C8_Witness ==
    /\ FullOuterSaved
    /\ Len(docs) >= 2
    /\ ids_of_document(docs, 1) \cap ids_of_document(docs, 2) # {}
    /\ ids_of_document(docs, 1) \ ids_of_document(docs, 2) # {}
    /\ Len(full_outer_output) = 2

\* C9: in the occurrence index every non-empty id that some offer carries
\* has as count the number of offers carrying it across all documents and
\* as representative the last of them in scan order; no other id, and in
\* particular not the empty one, is indexed.
C9_OccurrenceIndex ==
    cached_offers # NoCache =>
       /\ DOMAIN index.offer_counts.val =
             UNION { ids_of_document(docs, d) : d \in DOMAIN docs }
       /\ DOMAIN index.all_offers.val =
             DOMAIN index.offer_counts.val
       /\ NoId \notin DOMAIN index.offer_counts.val
       /\ \A id \in DOMAIN index.offer_counts.val :
             /\ index.offer_counts.val[id] =
                   Cardinality(places(docs, id))
             /\ LET rep == index.all_offers.val[id]
                IN  /\ rep.id = id
                    /\ <<rep.doc, rep.pos>> \in places(docs, id)
                    /\ \A q \in places(docs, id) :
                          later(<<rep.doc, rep.pos>>, q)

\* An id carried by offers of two documents, next to an offer without id.
C9_Witness ==
    /\ cached_offers # NoCache
    /\ join_pc = "ok"
    /\ \E id \in DOMAIN index.offer_counts.val :
          /\ index.offer_counts.val[id] = 2
          /\ index.all_offers.val[id].doc = 2
          /\ \E q \in places(docs, id) : q[1] = 1
    /\ places(docs, NoId) # {}

\* C15: when the first document has no <offers> container, every join
\* ends with StructureXMLError and the join folder gets no file.
C15_StructureError ==
    (docs # <<>> /\ ~has_offers /\ join_pc # "idle") =>
       /\ join_pc = "StructureXMLError"
       /\ DOMAIN join_files = {}

\* A full outer join over two documents with offers, the first without
\* container.
C15_Witness ==
    /\ Len(docs) = 2
    /\ \A d \in DOMAIN docs : ids_of_document(docs, d) # {}
    /\ ~has_offers
    /\ join_type = "full_outer"
    /\ join_pc = "StructureXMLError"
    /\ DOMAIN join_files = {}

\* ---------------------------------------------------------------------
\* Statistics (handler/calculation.py and the row of get_offers_report)
\* ---------------------------------------------------------------------
\* Prices are integers (int(price)). Quantiles are held in quarters,
\* thresholds in eighths, averages and medians in hundredths: for the
\* integers of these bounds numpy's float64 results are exactly these
\* fractions.
PriceValues == 0..MaxPriceValue

\* The price lists a category can have, and the list of the documented
\* scenario.
PriceLists ==
    SeqsUpTo(PriceValues, MaxPrices) \cup { <<10, 12, 11, 13, 100>> }

\* LOWER_OUTLIER_PERCENTILE = 0.25 and UPPER_OUTLIER_PERCENTILE = 0.75, in
\* quarters.
LOWER_OUTLIER_PERCENTILE == 1
UPPER_OUTLIER_PERCENTILE == 3
\* DECIMAL_ROUNDING = 2: rounded values are held in units of 10^-2.
DECIMAL_ROUNDING == 100

RECURSIVE insert(_, _)
insert(x, s) ==
    IF s = <<>> THEN <<x>>
    ELSE IF x <= Head(s) THEN <<x>> \o s
    ELSE <<Head(s)>> \o insert(x, Tail(s))

RECURSIVE sort(_)
\* The sorted copy np.quantile and np.median work on.
sort(s) == IF s = <<>> THEN <<>> ELSE insert(Head(s), sort(Tail(s)))

RECURSIVE sum(_)
sum(s) == IF s = <<>> THEN 0 ELSE Head(s) + sum(Tail(s))

\* min(...) and max(...) of a non-empty list.
min(s) == CHOOSE x \in { s[k] : k \in DOMAIN s } : \A k \in DOMAIN s : x <= s[k]

max(s) == CHOOSE x \in { s[k] : k \in DOMAIN s } : \A k \in DOMAIN s : x >= s[k]

\* np.quantile(array, q / 4), method 'linear', times 4: the virtual index
\* q / 4 * (n - 1) lies between two neighbours of the sorted array.
np_quantile(array, q) ==
    LET a == sort(array)
        n == Len(a)
        lo == (q * (n - 1)) \div 4 + 1
        gamma == (q * (n - 1)) % 4
        hi == IF lo < n THEN lo + 1 ELSE lo
    IN  4 * a[lo] + (a[hi] - a[lo]) * gamma

RECURSIVE boolean_index(_, _, _)
\* array[mask]: the elements whose mask entry is true, in array order.
boolean_index(array, mask, k) ==
    IF k > Len(array) THEN <<>>
    ELSE (IF mask[k] THEN <<array[k]>> ELSE <<>>)
            \o boolean_index(array, mask, k + 1)

\* Mutant of calc_quantile: the band is open, a value on a threshold is
\* dropped.
calc_quantile_open(data) ==
    LET Q1 == np_quantile(data, LOWER_OUTLIER_PERCENTILE)
        Q3 == np_quantile(data, UPPER_OUTLIER_PERCENTILE)
        IQR == Q3 - Q1
        lower_outlier_threshold == 2 * Q1 - 3 * IQR
        upper_outlier_threshold == 2 * Q3 + 3 * IQR
        mask == [k \in DOMAIN data |->
                    /\ 8 * data[k] > lower_outlier_threshold
                    /\ 8 * data[k] < upper_outlier_threshold]
    IN  boolean_index(data, mask, 1)

\* Mutant of calc_quantile: the band is [Q1, Q3], without the margin of
\* 1.5 * IQR.
calc_quantile_quartiles(data) ==
    LET Q1 == np_quantile(data, LOWER_OUTLIER_PERCENTILE)
        Q3 == np_quantile(data, UPPER_OUTLIER_PERCENTILE)
        mask == [k \in DOMAIN data |->
                    /\ 4 * data[k] >= Q1
                    /\ 4 * data[k] <= Q3]
    IN  boolean_index(data, mask, 1)

\* calc_quantile of a non-empty list; the thresholds are in eighths.
calc_quantile(data) ==
    LET Q1 == np_quantile(data, LOWER_OUTLIER_PERCENTILE)
        Q3 == np_quantile(data, UPPER_OUTLIER_PERCENTILE)
        IQR == Q3 - Q1
        lower_outlier_threshold == 2 * Q1 - 3 * IQR
        upper_outlier_threshold == 2 * Q3 + 3 * IQR
        mask == [k \in DOMAIN data |->
                    /\ 8 * data[k] >= lower_outlier_threshold
                    /\ 8 * data[k] <= upper_outlier_threshold]
    IN  boolean_index(data, mask, 1)

\* Mutant of clear_min: the lower threshold itself, rounded down, is
\* given instead of the smallest value inside the band.
clear_min_threshold(data) ==
    LET Q1 == np_quantile(data, LOWER_OUTLIER_PERCENTILE)
        Q3 == np_quantile(data, UPPER_OUTLIER_PERCENTILE)
    IN  (2 * Q1 - 3 * (Q3 - Q1)) \div 8

clear_min(data) == min(calc_quantile(data))

clear_max(data) == max(calc_quantile(data))

\* round(num / den, 2) in hundredths: Python rounds the exact quotient
\* half to even.
round(num, den) ==
    LET x == DECIMAL_ROUNDING * num
        q == x \div den
        r == x % den
    IN  IF 2 * r < den THEN q
        ELSE IF 2 * r > den THEN q + 1
        ELSE IF q % 2 = 0 THEN q ELSE q + 1

\* np.median of a non-empty list, in halves.
np_median(data) ==
    LET a == sort(data)
        n == Len(a)
    IN  IF n % 2 = 1 THEN 2 * a[(n + 1) \div 2]
        ELSE a[n \div 2] + a[n \div 2 + 1]

clear_median(data) == round(np_median(calc_quantile(data)), 2)

clear_avg(data) ==
    round(sum(calc_quantile(data)), Len(calc_quantile(data)))

ZeroStatistics ==
    [min_price |-> 0, clear_min_price |-> 0, max_price |-> 0,
     clear_max_price |-> 0, avg_price |-> 0, clear_avg_price |-> 0,
     median_price |-> 0, clear_median_price |-> 0]

Statistics(pl) ==
    [min_price |-> min(pl),
     clear_min_price |-> clear_min(pl),
     max_price |-> max(pl),
     clear_max_price |-> clear_max(pl),
     avg_price |-> round(sum(pl), Len(pl)),
     clear_avg_price |-> clear_avg(pl),
     median_price |-> round(np_median(pl), 2),
     clear_median_price |-> clear_median(pl)]

\* What the statistics of a row end with when the functions are given
\* the list pl: min, max and the division raise on an empty list, the
\* clear_* functions on an empty filtered list.
statistics_of(pl) ==
    IF pl = <<>> THEN [err |-> "ValueError", called_with |-> {pl}]
    ELSE IF calc_quantile(pl) = <<>>
         THEN [err |-> "ValueError", called_with |-> {pl}]
         ELSE [err |-> "none", called_with |-> {pl}] @@ Statistics(pl)

\* Mutant of row_statistics: no "if price_list else 0".
row_statistics_unguarded(pl) == statistics_of(pl)

\* The eight statistics of one row of result: each is
\* "f(price_list) if price_list else 0".
row_statistics(pl) ==
    IF pl # <<>> THEN statistics_of(pl)
    ELSE [err |-> "none", called_with |-> {}] @@ ZeroStatistics

\* The statistics of the row of one category.
Summarize ==
    /\ summary = <<>>
    /\ summary' = <<row_statistics(price_list)>>
    /\ UNCHANGED price_list
    /\ UNCHANGED <<fetch_vars, join_vars, report_vars, db_vars, script>>

\* calc_quantile(data) called on its own with a non-empty list.
CalcQuantile ==
    /\ summary = <<>>
    /\ price_list # <<>>
    /\ summary' = <<[filtered_data |-> calc_quantile(price_list)]>>
    /\ UNCHANGED price_list
    /\ UNCHANGED <<fetch_vars, join_vars, report_vars, db_vars, script>>

InitStats ==
    /\ price_list \in PriceLists
    /\ summary = <<>>
    /\ FetchIdle
    /\ JoinIdle
    /\ ReportIdle
    /\ DbIdle
    /\ ServerIdle

NextStats == Summarize \/ CalcQuantile

SpecStats == InitStats /\ [][NextStats]_vars

\* ---------------------------------------------------------------------
\* get_offers_report: categories, offer scan and rollup of one document
\* ---------------------------------------------------------------------
\* category.get('parentId') without the attribute; offer.findtext(...) of
\* a missing or empty child.
None == 0

CategoryIds == 1..MaxCat

\* <price> texts. An offer of category c is given the price c, so that
\* a price list shows which categories its prices come from.
Prices == CategoryIds

CategoryElems == [id : CategoryIds, parentId : {None} \cup CategoryIds]

\* The <category> elements of a document, by increasing id.
CategoryLists ==
    { q \in SeqsUpTo(CategoryElems, MaxCat) :
         \A a, b \in DOMAIN q : a < b => q[a].id < q[b].id }

repeat(o, k) == [j \in 1..k |-> o]

RECURSIVE offers_of(_, _)
\* n[c] priced offers for every category id from c on, by increasing id.
offers_of(n, c) ==
    IF c > MaxCat THEN <<>>
    ELSE repeat([categoryId |-> c, price |-> c], n[c]) \o offers_of(n, c + 1)

\* Offers the scan passes over: one without categoryId, one without price.
SkippedOffers ==
    << [categoryId |-> None, price |-> 1], [categoryId |-> 1, price |-> None] >>

\* The <offer> elements of a document: at most MaxDirect priced offers
\* for each category id, declared or not, with or without the offers the
\* scan passes over. Their order only fixes the order inside the price
\* lists; one order is drawn.
OfferLists ==
    { offers_of(n, 1) \o tail :
         n \in [CategoryIds -> 0..MaxDirect], tail \in {<<>>, SkippedOffers} }

\* A <price> text that is not an integer literal, such as "12.50".
NotInteger == -1

\* int(price): the number, or ValueError.
int(text) == [err |-> text = NotInteger, value |-> text]

RECURSIVE scan_categories(_, _, _)
\* The loop over root.findall('.//category'): acc holds all_categories
\* and category_data.
scan_categories(acc, cats, k) ==
    IF k > Len(cats) THEN acc
    ELSE scan_categories(
            [all_categories |->
                DictSet(acc.all_categories, cats[k].id, cats[k].parentId),
             category_data |->
                DictSet(acc.category_data, cats[k].id,
                        [prices |-> <<>>, category_name |-> "name",
                         offers_count |-> 0])],
            cats, k + 1)

\* int(price) raises in the body of the loop.
scan_offer_raises(offer) ==
    offer.categoryId # None /\ offer.price # None /\ int(offer.price).err

\* The body of the loop over root.findall('.//offer').
scan_offer(cd, offer) ==
    IF offer.categoryId # None /\ offer.price # None
    THEN LET cd1 == IF DictHas(cd, offer.categoryId) THEN cd
                    ELSE DictSet(cd, offer.categoryId,
                                 [prices |-> <<>>, category_name |-> "",
                                  offers_count |-> 0])
             old == cd1.val[offer.categoryId]
         IN  DictSet(cd1, offer.categoryId,
                     [prices |-> Append(old.prices, int(offer.price).value),
                      category_name |-> old.category_name,
                      offers_count |-> old.offers_count + 1])
    ELSE cd

RECURSIVE scan_report_offers(_, _, _)
scan_report_offers(cd, offs, k) ==
    IF k > Len(offs) THEN cd
    ELSE IF scan_offer_raises(offs[k]) THEN cd
    ELSE scan_report_offers(scan_offer(cd, offs[k]), offs, k + 1)

RECURSIVE aggregate_data(_, _, _, _)
RECURSIVE aggregate_children(_, _, _, _, _)

\* Mutant of aggregate_children: a child contributes its own prices, it
\* is not aggregated itself.
RECURSIVE aggregate_children_shallow(_, _, _, _, _)
aggregate_children_shallow(acc, ac, category_id, k, depth) ==
    IF k > Len(ac.keys) THEN acc
    ELSE LET child_id == ac.keys[k]
         IN  IF ac.val[child_id] = category_id
             THEN aggregate_children_shallow(
                     [err |-> FALSE, cd |-> acc.cd,
                      prices |-> acc.prices \o acc.cd.val[child_id].prices,
                      offers_count |->
                         acc.offers_count + acc.cd.val[child_id].offers_count],
                     ac, category_id, k + 1, depth)
             ELSE aggregate_children_shallow(acc, ac, category_id, k + 1, depth)

\* The loop "for child_id, parent_id in all_categories.items()" of
\* aggregate_data(category_id), from the k-th item on.
aggregate_children(acc, ac, category_id, k, depth) ==
    IF acc.err \/ k > Len(ac.keys) THEN acc
    ELSE LET child_id == ac.keys[k]
         IN  IF ac.val[child_id] = category_id
             THEN LET sub == aggregate_data(acc.cd, ac, child_id, depth + 1)
                  IN  IF sub.err THEN [acc EXCEPT !.err = TRUE]
                      ELSE aggregate_children(
                              [err |-> FALSE, cd |-> sub.cd,
                               prices |->
                                  acc.prices \o sub.cd.val[child_id].prices,
                               offers_count |->
                                  acc.offers_count
                                     + sub.cd.val[child_id].offers_count],
                              ac, category_id, k + 1, depth)
             ELSE aggregate_children(acc, ac, category_id, k + 1, depth)

\* aggregate_data(category_id) at recursion depth `depth`: category_data
\* after the call, or err when the recursion does not end (RecursionError).
aggregate_data(cd, ac, category_id, depth) ==
    IF depth > Len(ac.keys) + 1 THEN [err |-> TRUE, cd |-> cd]
    ELSE LET acc == aggregate_children(
                       [err |-> FALSE, cd |-> cd,
                        prices |-> cd.val[category_id].prices,
                        offers_count |-> cd.val[category_id].offers_count],
                       ac, category_id, 1, depth)
         IN  IF acc.err THEN [err |-> TRUE, cd |-> cd]
             ELSE [err |-> FALSE,
                   cd |-> DictSet(acc.cd, category_id,
                             [prices |-> acc.prices,
                              category_name |->
                                 acc.cd.val[category_id].category_name,
                              offers_count |-> acc.offers_count])]

RECURSIVE aggregate_roots(_, _, _)

\* Mutant of aggregate_roots: the rollup is started at every category,
\* with or without parent.
RECURSIVE aggregate_roots_all(_, _, _)
aggregate_roots_all(res, ac, k) ==
    IF res.err \/ k > Len(ac.keys) THEN res
    ELSE aggregate_roots_all(aggregate_data(res.cd, ac, ac.keys[k], 1),
                             ac, k + 1)

\* "for root_id in root_categories: aggregate_data(root_id)"
aggregate_roots(res, ac, k) ==
    IF res.err \/ k > Len(ac.keys) THEN res
    ELSE IF ac.val[ac.keys[k]] = None
         THEN aggregate_roots(aggregate_data(res.cd, ac, ac.keys[k], 1),
                              ac, k + 1)
         ELSE aggregate_roots(res, ac, k + 1)

\* The loop over the offers ends with the ValueError of an int(price).
scan_raises(offs) == \E k \in DOMAIN offs : scan_offer_raises(offs[k])

\* category_data and all_categories right after the two scans.
scanned(cats, offs) ==
    LET acc == scan_categories(
                  [all_categories |-> EmptyDict, category_data |-> EmptyDict],
                  cats, 1)
    IN  [all_categories |-> acc.all_categories,
         category_data |-> scan_report_offers(acc.category_data, offs, 1)]

RECURSIVE rows_statistics(_, _)
\* The statistics of the rows from the k-th key of category_data on, in
\* category_data.items() order.
rows_statistics(cd, k) ==
    IF k > Len(cd.keys) THEN <<>>
    ELSE <<row_statistics(cd.val[cd.keys[k]].prices)>>
            \o rows_statistics(cd, k + 1)

\* Mutant of result_row: count_offers is the number of offers that refer
\* to the category itself.
result_row_direct(cd, ac, s, category_id) ==
    [category_id |-> category_id,
     parent_id |-> IF DictHas(ac, category_id) THEN ac.val[category_id]
                   ELSE None,
     category_name |-> cd.val[category_id].category_name,
     count_offers |->
        Cardinality({ k \in DOMAIN offers_in :
                        /\ offers_in[k].categoryId = category_id
                        /\ offers_in[k].price # None }),
     min_price |-> s.min_price,
     clear_min_price |-> s.clear_min_price,
     max_price |-> s.max_price,
     clear_max_price |-> s.clear_max_price,
     avg_price |-> s.avg_price,
     clear_avg_price |-> s.clear_avg_price,
     median_price |-> s.median_price,
     clear_median_price |-> s.clear_median_price]

\* The dict appended to result for the key category_id of category_data,
\* s holding its statistics.
result_row(cd, ac, s, category_id) ==
    [category_id |-> category_id,
     parent_id |-> IF DictHas(ac, category_id) THEN ac.val[category_id]
                   ELSE None,
     category_name |-> cd.val[category_id].category_name,
     count_offers |-> cd.val[category_id].offers_count,
     min_price |-> s.min_price,
     clear_min_price |-> s.clear_min_price,
     max_price |-> s.max_price,
     clear_max_price |-> s.clear_max_price,
     avg_price |-> s.avg_price,
     clear_avg_price |-> s.clear_avg_price,
     median_price |-> s.median_price,
     clear_median_price |-> s.clear_median_price]

\* The keys whose row is reached: all of them, or those up to the first
\* one whose statistics raise.
rows_reached(st) ==
    { k \in DOMAIN st : \A j \in DOMAIN st : j < k => st[j].err = "none" }

get_offers_report ==
    /\ report_pc = "idle"
    /\ \E sc \in {scanned(categories, offers_in)} :
       \E res \in {aggregate_roots([err |-> FALSE, cd |-> sc.category_data],
                                   sc.all_categories, 1)} :
       \E st \in {rows_statistics(res.cd, 1)} :
           /\ all_categories' = sc.all_categories
           /\ category_data' = IF scan_raises(offers_in) THEN sc.category_data
                               ELSE res.cd
           /\ IF scan_raises(offers_in)
              THEN /\ report_pc' = "ValueError"
                   /\ report_result' = <<>>
                   /\ stat_calls' = {}
              ELSE IF res.err
              THEN /\ report_pc' = "RecursionError"
                   /\ report_result' = <<>>
                   /\ stat_calls' = {}
              ELSE /\ stat_calls' =
                        UNION { st[k].called_with : k \in rows_reached(st) }
                   /\ IF \A k \in DOMAIN st : st[k].err = "none"
                      THEN /\ report_pc' = "done"
                           /\ report_result' =
                                 [k \in DOMAIN st |->
                                    result_row(res.cd, sc.all_categories,
                                               st[k], res.cd.keys[k])]
                      ELSE /\ report_pc' = "ValueError"
                           /\ report_result' = <<>>
    /\ UNCHANGED <<categories, offers_in>>
    /\ UNCHANGED <<fetch_vars, join_vars, stats_vars, db_vars, script>>

InitReport ==
    /\ categories \in CategoryLists
    /\ offers_in \in OfferLists
    /\ report_pc = "idle"
    /\ category_data = <<>>
    /\ all_categories = <<>>
    /\ report_result = <<>>
    /\ stat_calls = {}
    /\ FetchIdle
    /\ JoinIdle
    /\ StatsIdle
    /\ DbIdle
    /\ ServerIdle

NextReport == get_offers_report

SpecReport == InitReport /\ [][NextReport]_vars

\* Documents that need not be well formed as a catalogue: a <category>
\* may lack its id attribute (category.get('id') is None) and a <price>
\* may hold a text that is not an integer literal.
AnyCategoryElems ==
    [id : {None} \cup CategoryIds, parentId : {None} \cup CategoryIds]

AnyCategoryLists ==
    { q \in SeqsUpTo(AnyCategoryElems, MaxCat) :
         \A a, b \in DOMAIN q : a < b => q[a].id < q[b].id }

\* One priced offer for each of the first m category ids, then possibly
\* an offer whose price is not an integer literal.
AnyOfferLists ==
    { offers_of([c \in CategoryIds |-> IF c <= m THEN 1 ELSE 0], 1) \o tail :
         m \in {0, MaxCat},
         tail \in {<<>>, << [categoryId |-> 1, price |-> NotInteger] >>} }

InitAny ==
    /\ categories \in AnyCategoryLists
    /\ offers_in \in AnyOfferLists
    /\ report_pc = "idle"
    /\ category_data = <<>>
    /\ all_categories = <<>>
    /\ report_result = <<>>
    /\ stat_calls = {}
    /\ FetchIdle
    /\ JoinIdle
    /\ StatsIdle
    /\ DbIdle
    /\ ServerIdle

SpecAny == InitAny /\ [][NextReport]_vars

\* ---------------------------------------------------------------------
\* The reports table (CREATE_REPORTS_TABLE, INSERT_REPORT)
\* ---------------------------------------------------------------------
Dates == {"2025-01-01", "2025-01-02"}

ReportCategoryIds == {1, 2}

\* The columns of `unique_<table>_combo`.
unique_combo(r) == <<r.date, r.feed_name, r.category_id>>

\* The parameters of one INSERT_REPORT: a row of get_offers_report's
\* result for a category with the price list pl.
report_row(date, category_id, parent_id, pl) ==
    [date |-> date, feed_name |-> "feed1.xml", category_id |-> category_id,
     parent_id |-> parent_id, count_offers |-> Len(pl)]
       @@ (IF pl # <<>> THEN Statistics(pl) ELSE ZeroStatistics)

ReportRows ==
    { report_row(d, c, p, pl) :
         d \in Dates, c \in ReportCategoryIds, p \in {None, 3},
         pl \in {<<1>>, <<1, 3>>} }

\* ON DUPLICATE KEY UPDATE ...: the columns of the stored row that take
\* the new row's values.
on_duplicate_key_update(old, new) ==
    [old EXCEPT !.count_offers = new.count_offers,
                !.min_price = new.min_price,
                !.clear_min_price = new.clear_min_price,
                !.max_price = new.max_price,
                !.clear_max_price = new.clear_max_price,
                !.avg_price = new.avg_price,
                !.clear_avg_price = new.clear_avg_price,
                !.median_price = new.median_price,
                !.clear_median_price = new.clear_median_price]

\* INSERT_REPORT executed with the parameters of row new.
insert_report(table, new) ==
    IF \E r \in table : unique_combo(r) = unique_combo(new)
    THEN { IF unique_combo(r) = unique_combo(new)
           THEN on_duplicate_key_update(r, new) ELSE r : r \in table }
    ELSE table \cup {new}

InsertReport(row) ==
    /\ Len(upserted) < MaxUpserts
    /\ reports_table' = insert_report(reports_table, row)
    /\ upserted' = Append(upserted, row)
    /\ UNCHANGED <<fetch_vars, join_vars, report_vars, stats_vars, script>>

InitDb ==
    /\ reports_table = {}
    /\ upserted = <<>>
    /\ FetchIdle
    /\ JoinIdle
    /\ ReportIdle
    /\ StatsIdle
    /\ ServerIdle

NextDb == \E row \in ReportRows : InsertReport(row)

SpecDb == InitDb /\ [][NextDb]_vars

\* ---------------------------------------------------------------------
\* Properties of the rollup
\* ---------------------------------------------------------------------
declared == { categories[k].id : k \in DOMAIN categories }

\* The parent id given by the last <category> element with this id.
parent_of(c) ==
    LET ks == { k \in DOMAIN categories : categories[k].id = c }
        last == CHOOSE k \in ks : \A j \in ks : j <= k
    IN  categories[last].parentId

RECURSIVE ancestor_at(_, _)
\* The ancestor n levels above c: None when the chain has ended at a
\* root before, "undeclared" when it has left the declared categories.
ancestor_at(c, n) ==
    IF n = 0 THEN c
    ELSE LET a == ancestor_at(c, n - 1)
         IN  IF a \in declared THEN parent_of(a)
             ELSE IF a = None THEN None ELSE -1

\* The chain of parents of c ends at a category without parent.
reachable_from_root(c) ==
    c \in declared /\ ancestor_at(c, Cardinality(declared)) = None

\* c itself and the categories that have c among their ancestors.
subtree(c) ==
    { x \in declared : \E n \in 0..Cardinality(declared) : ancestor_at(x, n) = c }

\* How many offers with price v (and a category reference) lie in the
\* categories cs.
direct_count(cs, v) ==
    Cardinality({ k \in DOMAIN offers_in :
                     offers_in[k].price = v /\ offers_in[k].categoryId \in cs })

count_in(prices, v) == Cardinality({ k \in DOMAIN prices : prices[k] = v })

\* C10: after the rollup, the price list of every category reachable from
\* a root holds each price value as often as the offers of the category
\* itself and of all its descendants carry it: nothing twice, nothing
\* missing, at every depth.
C10_Rollup ==
    report_pc = "done" =>
       \A c \in declared :
          reachable_from_root(c) =>
             /\ \A v \in Prices :
                   count_in(category_data.val[c].prices, v)
                      = direct_count(subtree(c), v)
             /\ Len(category_data.val[c].prices)
                   = Cardinality({ k \in DOMAIN offers_in :
                        /\ offers_in[k].price # None
                        /\ offers_in[k].categoryId \in subtree(c) })

\* root 1 -> child 2 -> grandchild 3, one priced offer each: the root
\* holds three prices and the child two.
C10_Witness ==
    /\ report_pc = "done"
    /\ categories = << [id |-> 1, parentId |-> None],
                       [id |-> 2, parentId |-> 1],
                       [id |-> 3, parentId |-> 2] >>
    /\ \A c \in CategoryIds :
          Cardinality({ k \in DOMAIN offers_in :
                          /\ offers_in[k].categoryId = c
                          /\ offers_in[k].price # None }) = 1
    /\ Len(category_data.val[1].prices) = 3
    /\ Len(category_data.val[2].prices) = 2
    /\ Len(category_data.val[3].prices) = 1

\* ---------------------------------------------------------------------
\* Properties of the statistics
\* ---------------------------------------------------------------------
Summarized == summary # <<>> /\ "err" \in DOMAIN summary[1]

Filtered == summary # <<>> /\ "filtered_data" \in DOMAIN summary[1]

\* The k-th smallest value of P, k from 1.
kth_smallest(P, k) ==
    CHOOSE v \in { P[i] : i \in DOMAIN P } :
       /\ Cardinality({ i \in DOMAIN P : P[i] < v }) < k
       /\ k <= Cardinality({ i \in DOMAIN P : P[i] <= v })

\* Four times the linearly interpolated percentile 25 * q of P.
percentile(P, q) ==
    LET n == Len(P)
        below == (q * (n - 1)) \div 4 + 1
        above == IF below < n THEN below + 1 ELSE below
        part == (q * (n - 1)) % 4
    IN  (4 - part) * kth_smallest(P, below) + part * kth_smallest(P, above)

\* x lies in [Q1 - 1.5 * IQR, Q3 + 1.5 * IQR], both ends included.
in_band(P, x) ==
    LET q1 == percentile(P, 1)
        q3 == percentile(P, 3)
    IN  /\ 8 * x >= 2 * q1 - 3 * (q3 - q1)
        /\ 8 * x <= 2 * q3 + 3 * (q3 - q1)

\* The positions of P whose value lies in the band, in increasing order.
kept(P) ==
    LET ks == { k \in DOMAIN P : in_band(P, P[k]) }
    IN  [j \in 1..Cardinality(ks) |->
            CHOOSE k \in ks : Cardinality({ i \in ks : i < k }) = j - 1]

\* C11: for a non-empty price list whose row statistics were computed,
\* clear_min is not below the smallest price and clear_max not above the
\* largest, and the row's clear_min_price >= min_price and
\* clear_max_price <= max_price.
C11_ClearWithinRange ==
    (Summarized /\ summary[1].err = "none") =>
       /\ summary[1].clear_min_price >= summary[1].min_price
       /\ summary[1].clear_max_price <= summary[1].max_price
       /\ \A k \in DOMAIN price_list :
             /\ summary[1].min_price <= price_list[k]
             /\ summary[1].max_price >= price_list[k]
             /\ price_list # <<>> =>
                   /\ summary[1].clear_min_price >= kth_smallest(price_list, 1)
                   /\ summary[1].clear_max_price
                         <= kth_smallest(price_list, Len(price_list))

\* The filter has taken values away at both ends of the list.
C11_Witness ==
    /\ Summarized
    /\ summary[1].err = "none"
    /\ price_list # <<>>
    /\ summary[1].clear_max_price < summary[1].max_price
    /\ summary[1].min_price = kth_smallest(price_list, 1)

\* C12: calc_quantile returns the input values lying in the inclusive
\* band [Q1 - 1.5*IQR, Q3 + 1.5*IQR], each as often as it occurs and in
\* input order; [10, 12, 11, 13, 100] gives [10, 12, 11, 13], clear_max 13
\* and max 100.
C12_CalcQuantile ==
    /\ Filtered =>
          /\ summary[1].filtered_data
                = [j \in DOMAIN kept(price_list) |->
                      price_list[kept(price_list)[j]]]
          /\ price_list = <<10, 12, 11, 13, 100>> =>
                summary[1].filtered_data = <<10, 12, 11, 13>>
    /\ (Summarized /\ price_list = <<10, 12, 11, 13, 100>>) =>
          /\ summary[1].err = "none"
          /\ summary[1].clear_max_price = 13
          /\ summary[1].max_price = 100

\* A value on a threshold is kept, a value outside is dropped: from
\* [0, 4, 0, 0, 0] the band is [0, 0].
C12_Witness ==
    /\ Filtered
    /\ price_list = <<0, 4, 0, 0, 0>>
    /\ summary[1].filtered_data = <<0, 0, 0, 0>>

\* ---------------------------------------------------------------------
\* Properties of the reports table
\* ---------------------------------------------------------------------
\* The row most recently given to INSERT_REPORT for the key of row r.
last_upserted(key) ==
    LET ks == { k \in DOMAIN upserted : unique_combo(upserted[k]) = key }
    IN  upserted[CHOOSE k \in ks : \A j \in ks : j <= k]

\* C13: after any sequence of upserts the table holds exactly one row for
\* every key upserted, and that row equals the row most recently
\* upserted for the key in every column.
C13_UpsertReplaces ==
    \A k \in DOMAIN upserted :
       LET key == unique_combo(upserted[k])
           stored == { r \in reports_table : unique_combo(r) = key }
       IN  /\ Cardinality(stored) = 1
           /\ \A r \in stored : r = last_upserted(key)

\* ---------------------------------------------------------------------
\* Properties of the report rows
\* ---------------------------------------------------------------------
\* The keys of category_data whose price list is empty after the rollup.
empty_after_rollup ==
    { c \in DOMAIN category_data.val : category_data.val[c].prices = <<>> }

row_of(c) ==
    report_result[CHOOSE k \in DOMAIN report_result :
                     report_result[k].category_id = c]

\* C14: once the rollup has ended without error, the report does not
\* fail, the row of every category with an empty price list has its eight
\* statistics equal to 0, and no statistics function was given an empty
\* list.
C14_EmptyPriceListZeros ==
    report_pc \notin {"idle", "RecursionError"} =>
       /\ report_pc = "done"
       /\ <<>> \notin stat_calls
       /\ \A c \in empty_after_rollup :
             /\ \E k \in DOMAIN report_result :
                   report_result[k].category_id = c
             /\ \A f \in DOMAIN ZeroStatistics : row_of(c)[f] = 0

\* A root without offers of its own or below it, next to a category with
\* a price: the first row holds zeros, the second does not.
C14_Witness ==
    /\ report_pc = "done"
    /\ 1 \in empty_after_rollup
    /\ row_of(1).max_price = 0
    /\ \E k \in DOMAIN report_result : report_result[k].max_price > 0
    /\ stat_calls # {}

\* ---------------------------------------------------------------------
\* Further properties of XMLSaver
\* ---------------------------------------------------------------------
\* No request was issued and no file of the feeds folder was touched.
NothingFetched ==
    /\ wpc = <<>>
    /\ attempts = <<>>
    /\ \A n \in FileNames : folder[n] \in {"absent", "stale"}

C16_State ==
    /\ (feeds_list = <<>> /\ main_pc # "init") =>
          (main_pc = "EmptyFeedsListError" /\ NothingFetched)
    /\ (feeds_list # <<>> /\ main_pc # "init") =>
          main_pc # "EmptyFeedsListError"

C16_Step ==
    /\ feeds_list' = feeds_list
    /\ main_pc = "init" =>
          /\ main_pc' \in {"constructed", "EmptyFeedsListError"}
          /\ NothingFetched'

\* C16: constructing XMLSaver with an empty list ends with
\* EmptyFeedsListError, with no request issued and no file touched, then
\* or later; with a non-empty list the construction succeeds and the list
\* is stored as given and stays so.
C16_EmptyFeedsList == []C16_State /\ [][C16_Step]_vars

\* The construction with an empty list has failed, over a folder that
\* holds a file of an earlier run.
C16_Witness ==
    /\ feeds_list = <<>>
    /\ main_pc = "EmptyFeedsListError"
    /\ NothingFetched
    /\ \E n \in FileNames : folder[n] = "stale"

\* What a body is, whatever _validate_xml does with it: "badenc" is a
\* well-formed utf-8 document whose declaration names an encoding Python
\* does not know.
non_blank(b) == b # "blank"

decodes(b) == b \notin {"blank", "undecodable"}

well_formed(b) == b \in {"valid", "badenc"}

\* The worker of source i has got past _validate_xml.
passed_validation(i) == wpc[i] \in {"open", "write"} \/ result[i] = "True"

\* C17: a body is accepted exactly when it is non-blank, decodes under
\* its declared encoding or else under utf-8, and is well-formed; every
\* other body makes its source end with False, past no file operation.
C17_ValidateXml ==
    \A i \in Futures :
       body[i] \in BodyKinds =>
          /\ passed_validation(i) <=>
                (non_blank(body[i]) /\ decodes(body[i]) /\ well_formed(body[i]))
          /\ ~passed_validation(i) =>
                (wpc[i] = "done" /\ result[i] = "False")

\* The bodies _validate_xml rejects with EmptyXMLError or InvalidXMLError.
RejectedKinds == {"blank", "undecodable", "illformed"}

\* C18 as stated: a source whose body failed validation has made exactly
\* one request and has failed.
C18_ExactlyOneRequest ==
    \A i \in Futures :
       body[i] \in RejectedKinds =>
          (attempts[i] = 1 /\ wpc[i] = "done" /\ result[i] = "False")

C18_State ==
    \A i \in Futures :
       body[i] \in RejectedKinds =>
          /\ wpc[i] = "done"
          /\ result[i] = "False"
          /\ attempts[i] <= RETRY_MAX_ATTEMPTS

C18_Step ==
    \A i \in Futures :
       /\ (body[i] # "none" /\ i \in DOMAIN attempts') =>
             attempts'[i] = attempts[i]
       /\ (body[i] = "unread" /\ body'[i] \in RejectedKinds) =>
             (wpc'[i] = "done" /\ result'[i] = "False")

\* C18, amended: no request is made for a source once a response has
\* been received; the step that finds the body blank, undecodable or
\* ill-formed ends the source with False, after one request more than
\* the attempts that failed before the response.
C18_NoRetryAfterValidation == []C18_State /\ [][C18_Step]_vars

\* One attempt failed, the second brought an ill-formed body: two
\* requests, no third.
C18_Witness ==
    \E i \in Futures :
       /\ body[i] = "illformed"
       /\ attempts[i] = 2
       /\ wpc[i] = "done"
       /\ result[i] = "False"
       /\ main_pc = "done"

\* C19: the response _get_file returns is the answer to its last request
\* and has status 200; an answer with another status is followed by the
\* next request like a network failure, so that a server answering 401 and
\* then 200 has its 200 returned after exactly two requests.
C19_OnlySuccessReturned ==
    script # <<>> =>
       \A i \in Futures :
          /\ body[i] # "none" => script[attempts[i]] = "ok"
          /\ (script[1] = "http" /\ script[2] = "ok" /\ attempts[i] >= 2) =>
                (attempts[i] = 2 /\ body[i] # "none")

\* 401, then 200 with a valid body: saved after two requests.
C19_Witness ==
    /\ script # <<>>
    /\ script[1] = "http"
    /\ script[2] = "ok"
    /\ 1 \in Futures
    /\ attempts[1] = 2
    /\ body[1] = "valid"
    /\ result[1] = "True"

\* C20: no source makes more requests than the max_load_attempt the
\* XMLSaver was constructed with.
C20_AttemptCeiling ==
    \A i \in Futures : attempts[i] <= max_load_attempt

\* ---------------------------------------------------------------------
\* save_xml and the errors of its workers
\* ---------------------------------------------------------------------
\* The positions of main() up to the return of save_xml, and the two
\* errors that end it before any source is submitted.
SaveXmlPositions ==
    {"init", "constructed", "EmptyFeedsListError", "DirectoryCreationError",
     "as_completed"}

\* Inside the as_completed loop something can always go on: a worker
\* has a step to take, a finished future waits to be yielded, or the
\* loop is exhausted and save_xml returns.
SaveXmlGoesOn ==
    \/ \E i \in Futures : wpc[i] \in {"get_file", "validate", "open", "write"}
    \/ \E i \in Futures : CanStart(i)
    \/ \E i \in Futures \ collected : FutureDone(i)
    \/ LoopExhausted

\* C21: save_xml never raises because of a per-source error.  main() is
\* never left at an exception once the sources are submitted; whatever a
\* worker ended with (False after a network or validation error, or an
\* exception of its own), its future is yielded, it is not counted as
\* saved, the loop goes on, and save_xml returns after reporting the
\* number of sources saved and the number of sources.
C21_NeverRaises ==
    /\ main_pc \in SaveXmlPositions \/ AfterSaveXml
    /\ main_pc \in {"EmptyFeedsListError", "DirectoryCreationError"} =>
          wpc = <<>>
    /\ main_pc = "as_completed" =>
          /\ SaveXmlGoesOn
          /\ saved_files = Cardinality(collected \cap Succeeded)
    /\ AfterSaveXml =>
          /\ collected = Futures
          /\ \A i \in Futures : result[i] \in {"True", "False", "raised"}
          /\ reported = <<Cardinality(Succeeded), Len(feeds_list)>>

\* save_xml has returned although one worker ended with an exception of
\* its own and the other with a network failure; none is counted.
C21_Witness ==
    /\ AfterSaveXml
    /\ \E i, j \in Futures :
          /\ result[i] = "raised"
          /\ result[j] = "False"
          /\ body[j] = "none"
    /\ reported = <<0, 2>>

\* The documents the image, report and join stages of main() work on.
ProcessedDocuments == filenames

\* C22 as claimed: when main() runs its later stages, the documents they
\* process are exactly the files of the sources that succeeded in this
\* run, whatever the feeds folder held before the run.
C22_FailedSkipped ==
    main_pc \in {"downstream", "done"} =>
       ProcessedDocuments = { file_name(i) : i \in Succeeded }

\* ---------------------------------------------------------------------
\* Joins over no document, and the inputs of the joins
\* ---------------------------------------------------------------------
\* C23 as claimed: an inner join requested over zero documents ends
\* without an error and its result holds an empty offer sequence.
C23_InnerJoinOfNothing ==
    (Len(docs) = 0 /\ join_type = "inner") =>
       /\ join_pc = "ok"
       /\ "inner_join_feed.xml" \in DOMAIN join_files
       /\ join_files["inner_join_feed.xml"] = <<>>

\* What a join of type t over the documents ds writes.
join_of(t, ds) ==
    IF t = "inner"
    THEN inner_join(collect_all_offers(ds), Len(ds))
    ELSE full_outer_join(collect_all_offers(ds), Len(ds))

join_type_of(f) == IF f = "inner_join_feed.xml" THEN "inner" ELSE "full_outer"

\* The input documents and the one read by get_offers_report.
InputDocuments == <<docs, has_offers, categories, offers_in>>

C24_Step == InputDocuments' = InputDocuments

\* Every later operation sees the inputs the first one saw: the offers
\* indexed at the first join are those of the documents as they are
\* now, and every join file saved so far is the join of the documents as
\* they are now.
C24_State ==
    /\ cached_offers # NoCache => cached_offers[1] = collect_all_offers(docs)
    /\ \A f \in DOMAIN join_files :
          join_files[f] = join_of(join_type_of(f), docs)

priced(offer) == offer.categoryId # None /\ offer.price # None

\* The category ids the priced offers refer to.
referenced ==
    { offers_in[k].categoryId :
         k \in { j \in DOMAIN offers_in : priced(offers_in[j]) } }

\* The prices of the priced offers that refer to category c, in document
\* order.
direct_prices(c) ==
    LET of_c(offer) == priced(offer) /\ offer.categoryId = c
        sel == SelectSeq(offers_in, of_c)
    IN  [k \in DOMAIN sel |-> sel[k].price]

dict_keys(dct) == { dct.keys[k] : k \in DOMAIN dct.keys }

\* C25 as claimed: in the aggregation of a document every offer with a
\* category reference and a price adds its price once to the direct
\* prices of the category it refers to, an aggregate with an empty name
\* being made for an undeclared id; the other offers add nothing; the
\* rows of the report cover the declared and the referenced ids.
C25_EveryPricedOfferCounted ==
    report_pc # "idle" =>
       LET cd == scanned(categories, offers_in).category_data
       IN  /\ dict_keys(cd) = declared \cup referenced
           /\ \A c \in declared \cup referenced :
                 /\ cd.val[c].prices = direct_prices(c)
                 /\ cd.val[c].offers_count = Len(direct_prices(c))
                 /\ c \notin declared => cd.val[c].category_name = ""
           /\ report_pc = "done" =>
                 { report_result[k].category_id : k \in DOMAIN report_result }
                    = declared \cup referenced

\* The declared categories the rollup never reaches.
orphans == { c \in declared : ~reachable_from_root(c) }

\* C26: a category not reachable from any root is reported with exactly
\* its own direct prices and its own direct offer count, and the price
\* list of no other category holds a price of its offers.
C26_OrphanKeepsOwn ==
    report_pc = "done" =>
       \A c \in orphans :
          /\ category_data.val[c].prices = direct_prices(c)
          /\ category_data.val[c].offers_count = Len(direct_prices(c))
          /\ row_of(c).count_offers = Len(direct_prices(c))
          /\ \A x \in dict_keys(category_data) \ {c} :
                count_in(category_data.val[x].prices, c) = 0

\* An orphan with an offer of its own whose parent is a declared orphan
\* with an offer too, next to a root that has an offer.
C26_Witness ==
    /\ report_pc = "done"
    /\ \E c \in orphans :
          /\ parent_of(c) \in orphans \ {c}
          /\ direct_prices(c) # <<>>
          /\ direct_prices(parent_of(c)) # <<>>
    /\ \E r \in declared : parent_of(r) = None /\ direct_prices(r) # <<>>

\* C27 as claimed: the rollup ends for every finite category list, also
\* one with a cycle of parent references, a category that is its own
\* parent or a <category> without id attribute: the recursion of
\* aggregate_data never goes beyond the number of categories.
C27_RollupTerminates == report_pc # "RecursionError"

\* ---------------------------------------------------------------------
\* count_offers and the price list of a row
\* ---------------------------------------------------------------------
\* offers_count is the length of the price list at every key of cd.
counts_match(cd) ==
    \A c \in dict_keys(cd) : cd.val[c].offers_count = Len(cd.val[c].prices)

\* C28: in every report row count_offers is the number of prices in the
\* price list its statistics are computed from.  The two agree at every
\* key right after the offer scan and still agree after the rollup, and
\* each row takes its count and its statistics from the same entry,
\* whether the category is reachable from a root, orphaned or made for an
\* undeclared id.
C28_CountIsLenPrices ==
    report_pc \notin {"idle", "RecursionError"} =>
       /\ counts_match(scanned(categories, offers_in).category_data)
       /\ counts_match(category_data)
       /\ report_pc = "done" =>
             /\ Len(report_result) = Len(category_data.keys)
             /\ \A k \in DOMAIN report_result :
                   LET c == report_result[k].category_id
                       pl == category_data.val[c].prices
                   IN  /\ c = category_data.keys[k]
                       /\ report_result[k].count_offers = Len(pl)
                       /\ pl # <<>> => pl \in stat_calls
                       /\ pl = <<>> => report_result[k].max_price = 0

\* A root whose row counts its own offer and the one of its child, next
\* to the row of an undeclared category with one offer.
C28_Witness ==
    /\ report_pc = "done"
    /\ \E r \in declared :
          /\ parent_of(r) = None
          /\ direct_prices(r) # <<>>
          /\ row_of(r).count_offers = 2
    /\ \E c \in dict_keys(category_data) \ declared :
          row_of(c).count_offers = 1

\* ---------------------------------------------------------------------
\* The filtered list is never empty
\* ---------------------------------------------------------------------
\* C29: for every non-empty price list the list calc_quantile returns is
\* non-empty, so clear_min, clear_max, clear_avg and clear_median of a
\* non-empty list end without error (no min or max of an empty sequence,
\* no division by zero) and give values of the range of the list.
C29_FilteredNonEmpty ==
    /\ Filtered => summary[1].filtered_data # <<>>
    /\ (Summarized /\ price_list # <<>>) =>
          /\ summary[1].err = "none"
          /\ \E k \in DOMAIN price_list :
                summary[1].clear_min_price = price_list[k]
          /\ \E k \in DOMAIN price_list :
                summary[1].clear_max_price = price_list[k]
          /\ summary[1].clear_avg_price
                >= DECIMAL_ROUNDING * summary[1].clear_min_price
          /\ summary[1].clear_avg_price
                <= DECIMAL_ROUNDING * summary[1].clear_max_price
          /\ summary[1].clear_median_price
                >= DECIMAL_ROUNDING * summary[1].clear_min_price
          /\ summary[1].clear_median_price
                <= DECIMAL_ROUNDING * summary[1].clear_max_price

\* Two different prices: both quartiles lie strictly between them and
\* both prices are kept.
C29_Witness ==
    /\ Summarized
    /\ Len(price_list) = 2
    /\ price_list[1] < price_list[2]
    /\ summary[1].err = "none"
    /\ summary[1].clear_min_price = price_list[1]
    /\ summary[1].clear_max_price = price_list[2]

\* ---------------------------------------------------------------------
\* The files of one batch
\* ---------------------------------------------------------------------
\* The workers that have opened their file and not yet closed it.
Writing == { i \in Futures : wpc[i] = "write" }

\* The files written in this run.
FilesWritten == { file_name(i) : i \in Succeeded }

\* C30 as claimed: no two workers of one save_xml batch have the same
\* file open for writing, and when save_xml has returned the number of
\* files written in the run is the reported number of saved sources.
C30_DistinctFiles ==
    /\ \A i, j \in Writing : i # j => file_name(i) # file_name(j)
    /\ AfterSaveXml => Cardinality(FilesWritten) = reported[1]

====
